---- MODULE Spec2Model ----
(***************************************************************************)
(* Model of fusion_report/generate_report.py: the parse() sequence over    *)
(* the five tool adapters, the known/unknown classification loop of        *)
(* generate_report(), the pages handed to the Report and the index page    *)
(* built by generate_index().                                              *)
(*                                                                         *)
(* ToolParser, Db, Report and helpers.core are imported by the file but    *)
(* are not part of it; what they do is taken from the design document      *)
(* (sections 4.1, 4.2, 4.4, 7) and, for the fusion list filter, from the   *)
(* text generate_index() itself prints next to the table.                  *)
(***************************************************************************)
EXTENDS Integers, Sequences, FiniteSets, TLC

VARIABLES
    params,          \* argparse namespace: one path per tool (or None), tool_num
    fileEmpty,       \* tools whose supplied file turned out to hold no line
    pc,              \* position inside generate_report()
    parsed,          \* tools for which parse() has called tools.parse, in order
    tools,           \* the ToolParser local to parse()
    parser,          \* generate_report's `parser` (Unbound until parse() returns)
    dbTable,         \* rows (h_gene, t_gene) of the external reference table
    dbChanges,       \* how often the external table was modified during the run
    dbSelects,       \* SELECTs of the reference list issued so far (line 243)
    db_fusions,      \* the list selected at lines 243-247
    fusions,         \* parser.get_fusions() as iterated by the loop
    i,               \* number of loop iterations completed
    known_fusions,
    unknown_fusions,
    pages,           \* pages passed to report.add_page, in order
    progress,        \* first argument of every print_progress_bar call, in order
    lookups,         \* every membership test of line 253: fusion and list consulted
    error,           \* exception that left generate_report, or "none"
    log              \* calls handed to the aggregator (merge specification only)

vars == <<params, fileEmpty, pc, parsed, tools, parser, dbTable, dbChanges,
          dbSelects, db_fusions, fusions, i, known_fusions, unknown_fusions, pages,
          progress, lookups, error, log>>

----------------------------------------------------------------------------
(* Bounds *)

MaxLines == 2        \* lines per tool output file
MaxToolNum == 3      \* largest --tool_num tried
MaxDbChanges == 1    \* modifications of the external table during one run
MaxCalls == 3        \* calls merged in the merge specification
MaxDetail == 2       \* distinct tool-specific detail payloads

Genes == {"ABC", "XYZ"}
Pairs == {p \in Genes \X Genes : p[1] # p[2]}
Details == 1..MaxDetail

----------------------------------------------------------------------------
(* Program constants *)

TOOL_DETECTION_CUTOFF == 2

\* parse() without its last call
ParseOrder_without_squid == <<"ericscript", "starfusion", "fusioncatcher", "pizzly">>

\* the order in which parse() calls tools.parse
ParseOrder == <<"ericscript", "starfusion", "fusioncatcher", "pizzly", "squid">>

\* the tools main() accepts an output file for
Tools == {"ericscript", "fusioncatcher", "starfusion", "pizzly", "squid"}

None == "None"
Path == "file"
Unbound == [unbound |-> TRUE]
BAD == [malformed |-> TRUE]

----------------------------------------------------------------------------
(* Identities *)

\* SQL: h_gene || "--" || t_gene ; the adapters name a fusion the same way
Ident(h, t) == h \o "--" \o t

CallId(call) == Ident(call.pair[1], call.pair[2])

EmptyAgg == [k \in {} |-> 0]

NewToolParser == [fusions |-> EmptyAgg, tools |-> {}]

----------------------------------------------------------------------------
(* ToolParser (helpers.tool_parser) *)

Calls == [pair : Pairs, detail : Details]

\* a tool file as the pipeline reads it: valid calls or a malformed line
PipelineLines == [pair : Pairs, detail : {1}] \cup {BAD}

RECURSIVE SeqsUpTo(_, _)
SeqsUpTo(S, n) ==
    IF n = 0 THEN {<<>>}
    ELSE LET shorter == SeqsUpTo(S, n - 1)
         IN shorter \cup {Append(s, x) : s \in {q \in shorter : Len(q) = n - 1}, x \in S}

Files == SeqsUpTo(PipelineLines, MaxLines)

\* first-write-wins variant of the merge
aggregate_keep_first(agg, tool, call) ==
    LET id == CallId(call)
    IN [k \in DOMAIN agg \cup {id} |->
          IF k # id THEN agg[k]
          ELSE IF id \in DOMAIN agg
               THEN [t \in DOMAIN agg[id] \cup {tool} |->
                        IF t \in DOMAIN agg[id] THEN agg[id][t] ELSE call.detail]
               ELSE [t \in {tool} |-> call.detail]]

\* record one call under its tool's slot of the record keyed by its identity
aggregate(agg, tool, call) ==
    LET id == CallId(call)
    IN [k \in DOMAIN agg \cup {id} |->
          IF k # id THEN agg[k]
          ELSE IF id \in DOMAIN agg
               THEN [t \in DOMAIN agg[id] \cup {tool} |->
                        IF t = tool THEN call.detail ELSE agg[id][t]]
               ELSE [t \in {tool} |-> call.detail]]

RECURSIVE aggregate_all(_, _, _)
aggregate_all(agg, tool, calls) ==
    IF calls = <<>> THEN agg
    ELSE aggregate_all(aggregate(agg, tool, Head(calls)), tool, Tail(calls))

\* index of the first malformed line of a file, 0 if there is none
FirstBad(file) ==
    IF \E k \in 1..Len(file) : file[k] = BAD
    THEN CHOOSE k \in 1..Len(file) : file[k] = BAD /\ \A j \in 1..(k - 1) : file[j] # BAD
    ELSE 0

\* ToolParser.parse(tool, path): an absent path or an empty file gives no
\* call and no error; a line that does not match the schema raises
\* FormatError after the lines before it were merged
ToolParser_parse(tp, tool, path, file) ==
    IF path = None
    THEN [parser |-> tp, raised |-> "none"]
    ELSE IF FirstBad(file) = 0
    THEN [parser |-> [fusions |-> aggregate_all(tp.fusions, tool, file),
                      tools |-> tp.tools \cup {tool}],
          raised |-> "none"]
    ELSE [parser |-> [fusions |-> aggregate_all(tp.fusions, tool,
                                                SubSeq(file, 1, FirstBad(file) - 1)),
                      tools |-> tp.tools \cup {tool}],
          raised |-> "FormatError"]

get_fusions(p) == DOMAIN p.fusions

get_tools(p) == p.tools

detection_count(p, fusion) == Cardinality(DOMAIN p.fusions[fusion])

Perms(S) ==
    {s \in [1..Cardinality(S) -> S] : \A a, b \in 1..Cardinality(S) : a # b => s[a] # s[b]}

Range(s) == {s[k] : k \in 1..Len(s)}

----------------------------------------------------------------------------
(* helpers.core.create_fusions_table, as generate_index() documents it *)

\* variant that disables the filter when no fusion reaches the cutoff
create_fusions_table_by_max(p, cutoff) ==
    LET all == get_fusions(p)
        disabled == \A f \in all : detection_count(p, f) < cutoff
    IN {f \in all : disabled \/ detection_count(p, f) >= cutoff}

create_fusions_table(p, cutoff) ==
    LET all == get_fusions(p)
        disabled == Cardinality(get_tools(p)) < cutoff
    IN {f \in all : disabled \/ detection_count(p, f) >= cutoff}

----------------------------------------------------------------------------
(* Initial state: generate_report(params) has just been entered *)

ParamsSet ==
    [ericscript : {None, Path}, starfusion : {None, Path},
     fusioncatcher : {None, Path}, pizzly : {None, Path}, squid : {None, Path},
     tool_num : 1..MaxToolNum]

Init ==
    /\ params \in ParamsSet
    /\ fileEmpty = {}
    /\ pc = "parse"
    /\ parsed = <<>>
    /\ tools = NewToolParser
    /\ parser = Unbound
    /\ dbTable \in SUBSET Pairs
    /\ dbChanges = 0
    /\ dbSelects = 0
    /\ db_fusions = {}
    /\ fusions = <<>>
    /\ i = 0
    /\ known_fusions = <<>>
    /\ unknown_fusions = <<>>
    /\ pages = <<>>
    /\ progress = <<>>
    /\ lookups = <<>>
    /\ error = "none"
    /\ log = <<>>

----------------------------------------------------------------------------
(* parse(params): lines 17-31 *)

NextTool == ParseOrder[Len(parsed) + 1]

\* what the file behind a path can hold; no file is read for an absent path
Contents(path) == IF path = None THEN {<<>>} ELSE Files

\* lines 25-29: the next tools.parse(name, params.<name>) call returns
ParseTool ==
    /\ pc = "parse"
    /\ Len(parsed) < Len(ParseOrder)
    /\ \E file \in Contents(params[NextTool]) :
          LET r == ToolParser_parse(tools, NextTool, params[NextTool], file) IN
          /\ r.raised = "none"
          /\ tools' = r.parser
          /\ fileEmpty' = IF params[NextTool] # None /\ file = <<>>
                          THEN fileEmpty \cup {NextTool} ELSE fileEmpty
    /\ parsed' = Append(parsed, NextTool)
    /\ UNCHANGED <<params, pc, parser, dbTable, dbChanges, dbSelects,
                   db_fusions, fusions, i, known_fusions, unknown_fusions,
                   pages, progress, lookups, error, log>>

\* the error is logged and parse() goes on with the next tool
ParseToolRaises_swallowed ==
    /\ pc = "parse"
    /\ Len(parsed) < Len(ParseOrder)
    /\ \E file \in Contents(params[NextTool]) :
          LET r == ToolParser_parse(tools, NextTool, params[NextTool], file) IN
          /\ r.raised # "none"
          /\ tools' = r.parser
          /\ error' = r.raised
    /\ parsed' = Append(parsed, NextTool)
    /\ UNCHANGED <<params, fileEmpty, pc, parser, dbTable, dbChanges, dbSelects,
                   db_fusions, fusions, i, known_fusions, unknown_fusions,
                   pages, progress, lookups, log>>

\* lines 25-29: the next tools.parse call raises; neither parse() nor
\* generate_report() has a handler, so the error leaves generate_report()
ParseToolRaises ==
    /\ pc = "parse"
    /\ Len(parsed) < Len(ParseOrder)
    /\ \E file \in Contents(params[NextTool]) :
          LET r == ToolParser_parse(tools, NextTool, params[NextTool], file) IN
          /\ r.raised # "none"
          /\ tools' = r.parser
          /\ error' = r.raised
    /\ parsed' = Append(parsed, NextTool)
    /\ pc' = "error"
    /\ UNCHANGED <<params, fileEmpty, parser, dbTable, dbChanges, dbSelects,
                   db_fusions, fusions, i, known_fusions, unknown_fusions,
                   pages, progress, lookups, log>>

\* return tools (line 31); parser = parse(params) (line 235)
ParseReturn ==
    /\ pc = "parse"
    /\ Len(parsed) = Len(ParseOrder)
    /\ parser' = tools
    /\ pc' = "db"
    /\ UNCHANGED <<params, fileEmpty, parsed, tools, dbTable, dbChanges,
                   dbSelects, db_fusions, fusions, i, known_fusions,
                   unknown_fusions, pages, progress, lookups, error, log>>

----------------------------------------------------------------------------
(* generate_report(params): lines 236-269 *)

\* the SELECT concatenates the two columns the other way round
SelectDbFusions_swapped ==
    /\ pc = "db"
    /\ dbSelects' = dbSelects + 1
    /\ db_fusions' = {Ident(row[2], row[1]) : row \in dbTable}
    /\ fusions' \in Perms(get_fusions(parser))
    /\ known_fusions' = <<>>
    /\ unknown_fusions' = <<>>
    /\ progress' = Append(progress, 0)
    /\ pc' = "loop"
    /\ UNCHANGED <<params, fileEmpty, parsed, tools, parser, dbTable, dbChanges,
                   i, pages, lookups, error, log>>

\* lines 236-250: open the database, select the reference list once,
\* take the fusion list and report progress 0
SelectDbFusions ==
    /\ pc = "db"
    /\ dbSelects' = dbSelects + 1
    /\ db_fusions' = {Ident(row[1], row[2]) : row \in dbTable}
    /\ fusions' \in Perms(get_fusions(parser))
    /\ known_fusions' = <<>>
    /\ unknown_fusions' = <<>>
    /\ progress' = Append(progress, 0)
    /\ pc' = "loop"
    /\ UNCHANGED <<params, fileEmpty, parsed, tools, parser, dbTable, dbChanges,
                   i, pages, lookups, error, log>>

\* db.connect / db.select of lines 242-243 fails
DbSelectError ==
    /\ pc = "db"
    /\ dbSelects' = dbSelects + 1
    /\ pc' = "error"
    /\ error' = "ReferenceLookupError"
    /\ UNCHANGED <<params, fileEmpty, parsed, tools, parser, dbTable, dbChanges,
                   db_fusions, fusions, i, known_fusions, unknown_fusions,
                   pages, progress, lookups, log>>

\* the loop consults the table as it is now instead of the selected list
ClassifyUnknown_live ==
    LET live == {Ident(row[1], row[2]) : row \in dbTable} IN
    /\ pc = "loop"
    /\ i < Len(fusions)
    /\ fusions[i + 1] \notin live
    /\ lookups' = Append(lookups, [fusion |-> fusions[i + 1], reference |-> live])
    /\ unknown_fusions' = Append(unknown_fusions, fusions[i + 1])
    /\ progress' = Append(progress, i + 1)
    /\ i' = i + 1
    /\ UNCHANGED <<params, fileEmpty, pc, parsed, tools, parser, dbTable,
                   dbChanges, dbSelects, db_fusions, fusions, known_fusions,
                   pages, error, log>>

\* the `continue` of line 258 is missing: the fusion is appended to both lists
ClassifyUnknown_no_continue ==
    /\ pc = "loop"
    /\ i < Len(fusions)
    /\ fusions[i + 1] \notin db_fusions
    /\ lookups' = Append(lookups, [fusion |-> fusions[i + 1], reference |-> db_fusions])
    /\ unknown_fusions' = Append(unknown_fusions, fusions[i + 1])
    /\ known_fusions' = Append(known_fusions, fusions[i + 1])
    /\ progress' = Append(progress, i + 1)
    /\ i' = i + 1
    /\ UNCHANGED <<params, fileEmpty, pc, parsed, tools, parser, dbTable,
                   dbChanges, dbSelects, db_fusions, fusions, pages, error, log>>

\* the unknown branch forgets its print_progress_bar call
ClassifyUnknown_no_progress ==
    /\ pc = "loop"
    /\ i < Len(fusions)
    /\ fusions[i + 1] \notin db_fusions
    /\ lookups' = Append(lookups, [fusion |-> fusions[i + 1], reference |-> db_fusions])
    /\ unknown_fusions' = Append(unknown_fusions, fusions[i + 1])
    /\ i' = i + 1
    /\ UNCHANGED <<params, fileEmpty, pc, parsed, tools, parser, dbTable,
                   dbChanges, dbSelects, db_fusions, fusions, known_fusions,
                   pages, progress, error, log>>

\* lines 253-258: the fusion is not in db_fusions
ClassifyUnknown ==
    /\ pc = "loop"
    /\ i < Len(fusions)
    /\ fusions[i + 1] \notin db_fusions
    /\ lookups' = Append(lookups, [fusion |-> fusions[i + 1], reference |-> db_fusions])
    /\ unknown_fusions' = Append(unknown_fusions, fusions[i + 1])
    /\ progress' = Append(progress, i + 1)
    /\ i' = i + 1
    /\ UNCHANGED <<params, fileEmpty, pc, parsed, tools, parser, dbTable,
                   dbChanges, dbSelects, db_fusions, fusions, known_fusions,
                   pages, error, log>>

\* generate_fusion_page(params, parser, fusion, db): the page of one fusion
generate_fusion_page(fusion) == [title |-> fusion, partial_template |-> "fusion"]

\* lines 260-265: the fusion is in db_fusions and its page is built and added
ClassifyKnown ==
    /\ pc = "loop"
    /\ i < Len(fusions)
    /\ fusions[i + 1] \in db_fusions
    /\ lookups' = Append(lookups, [fusion |-> fusions[i + 1], reference |-> db_fusions])
    /\ known_fusions' = Append(known_fusions, fusions[i + 1])
    /\ pages' = Append(pages, generate_fusion_page(fusions[i + 1]))
    /\ progress' = Append(progress, i + 1)
    /\ i' = i + 1
    /\ UNCHANGED <<params, fileEmpty, pc, parsed, tools, parser, dbTable,
                   dbChanges, dbSelects, db_fusions, fusions, unknown_fusions,
                   error, log>>

\* lines 260-261: the fusion is in db_fusions, but one of the annotation
\* lookups of generate_fusion_page fails and the error leaves generate_report
FusionPageError ==
    /\ pc = "loop"
    /\ i < Len(fusions)
    /\ fusions[i + 1] \in db_fusions
    /\ lookups' = Append(lookups, [fusion |-> fusions[i + 1], reference |-> db_fusions])
    /\ known_fusions' = Append(known_fusions, fusions[i + 1])
    /\ pc' = "error"
    /\ error' = "ReferenceLookupError"
    /\ UNCHANGED <<params, fileEmpty, parsed, tools, parser, dbTable, dbChanges,
                   dbSelects, db_fusions, fusions, i, unknown_fusions, pages,
                   progress, log>>

\* fusions_sum counts the known fusions only
generate_index_known_only(known, unknown) ==
    [title |-> "index",
     partial_template |-> "index",
     fusions_sum |-> Len(known),
     known_fusion_sum |-> Len(known),
     fusion_tools |-> get_tools(parser),
     fusion_list |-> create_fusions_table(parser, params.tool_num)]

\* generate_index(params, parser, known_fusions, unknown_fusions)
generate_index(known, unknown) ==
    [title |-> "index",
     partial_template |-> "index",
     fusions_sum |-> Len(unknown) + Len(known),
     known_fusion_sum |-> Len(known),
     fusion_tools |-> get_tools(parser),
     fusion_list |-> create_fusions_table(parser, params.tool_num)]

\* lines 267-269: the loop is over, the index page is built and added
GenerateIndex ==
    /\ pc = "loop"
    /\ i = Len(fusions)
    /\ pages' = Append(pages, generate_index(known_fusions, unknown_fusions))
    /\ pc' = "done"
    /\ UNCHANGED <<params, fileEmpty, parsed, tools, parser, dbTable, dbChanges,
                   dbSelects, db_fusions, fusions, i, known_fusions,
                   unknown_fusions, progress, lookups, error, log>>

\* the external reference table is modified while the loop runs (a change
\* before the SELECT is the same as another initial table)
DbChange ==
    /\ pc = "loop"
    /\ dbChanges < MaxDbChanges
    /\ dbChanges' = dbChanges + 1
    /\ dbTable' \in (SUBSET Pairs) \ {dbTable}
    /\ UNCHANGED <<params, fileEmpty, pc, parsed, tools, parser, dbSelects,
                   db_fusions, fusions, i, known_fusions, unknown_fusions,
                   pages, progress, lookups, error, log>>

Next ==
    \/ ParseTool
    \/ ParseToolRaises
    \/ ParseReturn
    \/ SelectDbFusions
    \/ DbSelectError
    \/ ClassifyUnknown
    \/ ClassifyKnown
    \/ FusionPageError
    \/ GenerateIndex
    \/ DbChange

Spec == Init /\ [][Next]_vars

----------------------------------------------------------------------------
(* The aggregator on its own: calls merged one at a time *)

InitMerge ==
    /\ params \in {p \in ParamsSet : p.tool_num = TOOL_DETECTION_CUTOFF
                                      /\ \A t \in Tools : p[t] = Path}
    /\ fileEmpty = {}
    /\ pc = "aggregate"
    /\ parsed = <<>>
    /\ tools = NewToolParser
    /\ parser = Unbound
    /\ dbTable = {}
    /\ dbChanges = 0
    /\ dbSelects = 0
    /\ db_fusions = {}
    /\ fusions = <<>>
    /\ i = 0
    /\ known_fusions = <<>>
    /\ unknown_fusions = <<>>
    /\ pages = <<>>
    /\ progress = <<>>
    /\ lookups = <<>>
    /\ error = "none"
    /\ log = <<>>

\* one Canonical Fusion Call of one tool is merged into the aggregate
AggregateCall ==
    /\ pc = "aggregate"
    /\ Len(log) < MaxCalls
    /\ \E t \in Tools, call \in Calls :
          /\ tools' = [fusions |-> aggregate(tools.fusions, t, call),
                       tools |-> tools.tools \cup {t}]
          /\ log' = Append(log, [tool |-> t, call |-> call])
    /\ UNCHANGED <<params, fileEmpty, pc, parsed, parser, dbTable, dbChanges,
                   dbSelects, db_fusions, fusions, i, known_fusions,
                   unknown_fusions, pages, progress, lookups, error>>

NextMerge == AggregateCall

SpecMerge == InitMerge /\ [][NextMerge]_vars

----------------------------------------------------------------------------
(* Properties *)

Count(s, x) == Cardinality({k \in 1..Len(s) : s[k] = x})

LoopFinished == pc = "done" \/ (pc = "loop" /\ i = Len(fusions))

InDb(f) == f \in db_fusions

NotInDb(f) == f \notin db_fusions

AllAbsent == \A t \in Tools : params[t] = None

\* the index page of a finished run
IndexPage == pages[Len(pages)]

MaxCount(p) ==
    IF get_fusions(p) = {} THEN 0
    ELSE CHOOSE m \in 1..Cardinality(Tools) :
            /\ \E f \in get_fusions(p) : detection_count(p, f) = m
            /\ \A f \in get_fusions(p) : detection_count(p, f) <= m

AtLeast(p, n) == {f \in get_fusions(p) : detection_count(p, f) >= n}

\* C1: once the classification loop is over, known_fusions and
\* unknown_fusions partition the identities the aggregator returned: each
\* identity occurs exactly once, in exactly one of the two lists, and the
\* lists hold nothing else.
C1_Partition ==
    LoopFinished =>
        /\ Range(fusions) = get_fusions(parser)
        /\ Range(known_fusions) \cup Range(unknown_fusions) = get_fusions(parser)
        /\ Range(known_fusions) \cap Range(unknown_fusions) = {}
        /\ \A f \in get_fusions(parser) :
              Count(known_fusions, f) + Count(unknown_fusions, f) = 1

C1_Witness ==
    pc = "done" /\ Len(known_fusions) = 1 /\ Len(unknown_fusions) = 1

\* C2: a fusion is known exactly when its own HEAD--TAIL string is one of
\* the h_gene || "--" || t_gene strings of the reference table, head and
\* tail in the order given: with (ABC, XYZ) the only reference row,
\* ABC--XYZ is known and XYZ--ABC is unknown.
C2_ExactOrderedMembership ==
    /\ \A k \in 1..Len(known_fusions) : known_fusions[k] \in db_fusions
    /\ \A k \in 1..Len(unknown_fusions) : unknown_fusions[k] \notin db_fusions
    /\ (LoopFinished /\ dbChanges = 0) =>
          \A p \in Pairs :
             LET id == p[1] \o "--" \o p[2] IN
             id \in get_fusions(parser) =>
                /\ id \in Range(known_fusions) <=> p \in dbTable
                /\ id \in Range(unknown_fusions) <=> p \notin dbTable
    /\ (/\ LoopFinished
        /\ dbChanges = 0
        /\ dbTable = {<<"ABC", "XYZ">>}
        /\ get_fusions(parser) = {"ABC--XYZ", "XYZ--ABC"})
          => /\ known_fusions = <<"ABC--XYZ">>
             /\ unknown_fusions = <<"XYZ--ABC">>

C2_Witness ==
    /\ pc = "done"
    /\ dbChanges = 0
    /\ dbTable = {<<"ABC", "XYZ">>}
    /\ known_fusions = <<"ABC--XYZ">>
    /\ unknown_fusions = <<"XYZ--ABC">>

C4_NoPartialReport ==
    error # "none" => pages = <<>>

\* C5: parse() calls the adapter of each of the five tools, supplied or
\* not; a tool whose input is absent or empty contributes no call and
\* raises nothing, and with all five inputs absent the aggregate is empty
\* and the run ends with an index page over zero fusions.
C5_AbsentInputs ==
    /\ \A a, b \in 1..Len(parsed) : a # b => parsed[a] # parsed[b]
    /\ (pc # "parse" /\ error # "FormatError") => Range(parsed) = Tools
    /\ \A k \in 1..Len(parsed) :
          (params[parsed[k]] = None \/ parsed[k] \in fileEmpty)
             => /\ \A f \in get_fusions(tools) : parsed[k] \notin DOMAIN tools.fusions[f]
                /\ ~(error = "FormatError" /\ k = Len(parsed))
    /\ AllAbsent =>
          /\ get_fusions(tools) = {}
          /\ error # "FormatError"
          /\ pc = "done" => /\ fusions = <<>>
                            /\ Len(pages) = 1
                            /\ IndexPage.fusions_sum = 0

C5_Witness ==
    pc = "done" /\ AllAbsent /\ Len(parsed) = 5

\* C6: a malformed line raises FormatError inside parse() and ends the
\* run there: parse() never returns its ToolParser, the reference database
\* is not queried, nothing is classified, no progress is reported and no
\* page is added, whatever earlier tools had already contributed.
C6_FormatErrorAborts ==
    error = "FormatError" =>
        /\ pc = "error"
        /\ parser = Unbound
        /\ dbSelects = 0
        /\ fusions = <<>>
        /\ known_fusions = <<>>
        /\ unknown_fusions = <<>>
        /\ lookups = <<>>
        /\ progress = <<>>
        /\ pages = <<>>

C6_Witness ==
    /\ error = "FormatError"
    /\ Len(parsed) >= 2
    /\ get_fusions(tools) # {}

ToolsFor(id) == {log[k].tool : k \in {j \in 1..Len(log) : CallId(log[j].call) = id}}

LastDetail(t, id) ==
    LET ks == {k \in 1..Len(log) : log[k].tool = t /\ CallId(log[k].call) = id}
        last == CHOOSE k \in ks : \A j \in ks : j <= k
    IN log[last].call.detail

RECURSIVE MergeLog(_, _)
MergeLog(agg, l) ==
    IF l = <<>> THEN agg
    ELSE MergeLog(aggregate(agg, Head(l).tool, Head(l).call), Tail(l))

\* C7: the aggregate holds, for each identity, one slot per tool that
\* reported it, filled by that tool's latest call; a call merged twice in a
\* row leaves the aggregate it left the first time; the detection count is
\* the number of distinct tools of the record and is at least 1.
C7_MergePerToolSlot ==
    /\ get_fusions(tools) = {CallId(log[k].call) : k \in 1..Len(log)}
    /\ \A id \in get_fusions(tools) :
          /\ DOMAIN tools.fusions[id] = ToolsFor(id)
          /\ detection_count(tools, id) = Cardinality(ToolsFor(id))
          /\ detection_count(tools, id) >= 1
          /\ \A t \in ToolsFor(id) : tools.fusions[id][t] = LastDetail(t, id)
    /\ (Len(log) >= 2 /\ log[Len(log)] = log[Len(log) - 1])
          => tools.fusions = MergeLog(EmptyAgg, SubSeq(log, 1, Len(log) - 1))

C7_Witness ==
    /\ Len(log) = 3
    /\ log[3] = log[2]
    /\ log[1].tool = log[2].tool
    /\ log[1].call.pair = log[2].call.pair
    /\ log[1].call.detail # log[2].call.detail

\* C8: print_progress_bar is called with 0 before the loop and with i + 1
\* after each fusion, known or unknown, so the indices reported are
\* 0, 1, ... in order, one per fusion classified, the last one of a
\* finished run is the total, and the lists are what the membership test
\* alone gives.
C8_Progress ==
    /\ \A k \in 1..Len(progress) : progress[k] = k - 1
    /\ pc \in {"parse", "db"} => progress = <<>>
    /\ pc \in {"loop", "done"} =>
          /\ Len(progress) = i + 1
          /\ i = Len(known_fusions) + Len(unknown_fusions)
    /\ pc = "done" =>
          /\ progress[Len(progress)] = Len(fusions)
          /\ known_fusions = SelectSeq(fusions, InDb)
          /\ unknown_fusions = SelectSeq(fusions, NotInDb)

C8_Witness ==
    /\ pc = "done"
    /\ progress = <<0, 1, 2>>
    /\ Len(known_fusions) = 1
    /\ Len(unknown_fusions) = 1

FusionPages == IF pc = "done" THEN Len(pages) - 1 ELSE Len(pages)

\* C9: the report receives one fusion page per known fusion, in iteration
\* order, none for an unknown fusion, and the index page once, last, with
\* fusions_sum = len(known_fusions) + len(unknown_fusions) = the number of
\* identities of the aggregate.
C9_PageOrder ==
    /\ \A k \in 1..Len(pages) :
          /\ pages[k].title = "index" <=> (pc = "done" /\ k = Len(pages))
          /\ pages[k].title \notin Range(unknown_fusions)
    /\ FusionPages <= Len(known_fusions)
    /\ \A k \in 1..FusionPages :
          /\ pages[k].title = known_fusions[k]
          /\ pages[k].partial_template = "fusion"
    /\ pc \in {"loop", "done"} =>
          /\ FusionPages = Len(known_fusions)
          /\ known_fusions = SelectSeq(SubSeq(fusions, 1, i), InDb)
    /\ pc = "done" =>
          /\ IndexPage.fusions_sum = Len(known_fusions) + Len(unknown_fusions)
          /\ IndexPage.fusions_sum = Cardinality(get_fusions(parser))
          /\ IndexPage.known_fusion_sum = Len(known_fusions)

C9_Witness ==
    /\ pc = "done"
    /\ Len(pages) = 2
    /\ pages[1].title = known_fusions[1]
    /\ Len(unknown_fusions) = 1
    /\ fusions[1] = unknown_fusions[1]

\* C10: the reference list is selected once, and the membership test is
\* made once for each identity of the fusion list, in order, none twice
\* and none left out when the run finishes, each time against that same
\* selected list.
C10_OneLookupPerIdentity ==
    /\ dbSelects <= 1
    /\ Len(lookups) <= Len(fusions)
    /\ \A k \in 1..Len(lookups) :
          /\ lookups[k].fusion = fusions[k]
          /\ lookups[k].reference = db_fusions
    /\ \A j, k \in 1..Len(lookups) :
          j # k => lookups[j].fusion # lookups[k].fusion
    /\ pc = "loop" => Len(lookups) = i
    /\ pc = "done" =>
          \A f \in get_fusions(parser) :
             Cardinality({k \in 1..Len(lookups) : lookups[k].fusion = f}) = 1

C10_Witness ==
    /\ pc = "done"
    /\ Len(lookups) = 2
    /\ dbChanges = 1
    /\ db_fusions # {Ident(row[1], row[2]) : row \in dbTable}

====
